---- MODULE Spec2Model ----
(***************************************************************************)
(* Arabic -> Persian paragraph translator (server side).                   *)
(*                                                                         *)
(* The model follows the server sources: chunking.js (paragraph splitting  *)
(* and unit building), translator.js (batching, the bounded dispatcher,    *)
(* the retrying translation client, the per-unit fallback, the merge) and  *)
(* index.js (the two translate endpoints and toFlatOrderedChunks).         *)
(*                                                                         *)
(* A JavaScript string is a sequence of one-character strings.  A Node     *)
(* process runs one continuation at a time, so every action is the code    *)
(* that runs between two suspension points (an await of the model call, of *)
(* the backoff timer, or of a promise settled by another continuation).    *)
(***************************************************************************)
EXTENDS Integers, Sequences, FiniteSets, TLC

(***************************************************************************)
(* Characters and JavaScript string helpers                                *)
(***************************************************************************)
LF == "\n"
CR == "\r"
SP == " "
TAB == "\t"

\* The characters String.prototype.trim removes (those the inputs use).
WhiteSpace == {SP, LF, CR, TAB}

\* The character class [.!?؟؛] of splitBySentence; the two Arabic marks are
\* written by their code points.
ArabicQuestionMark == "U+061F"
ArabicSemicolon == "U+061B"
SentenceTerminators == {".", "!", "?", ArabicQuestionMark, ArabicSemicolon}

\* null / undefined where a function returns "nothing".
Null == [type |-> "null"]

Min(a, b) == IF a <= b THEN a ELSE b
Max(a, b) == IF a >= b THEN a ELSE b

\* String.prototype.trim: what lies between the first and the last
\* character that is not white space.
trim(s) ==
  LET kept == {i \in 1..Len(s) : s[i] \notin WhiteSpace}
  IN  IF kept = {} THEN <<>>
      ELSE SubSeq(s, CHOOSE i \in kept : \A j \in kept : i <= j,
                     CHOOSE i \in kept : \A j \in kept : i >= j)

\* Array.prototype.filter(Boolean) on an array of strings: drops "".
RECURSIVE filterNonEmpty(_)
filterNonEmpty(parts) ==
  IF parts = <<>> THEN <<>>
  ELSE IF Head(parts) = <<>> THEN filterNonEmpty(Tail(parts))
       ELSE <<Head(parts)>> \o filterNonEmpty(Tail(parts))

\* parts.map((p) => p.trim()).filter(Boolean)
trimAndFilter(parts) ==
  filterNonEmpty([i \in 1..Len(parts) |-> trim(parts[i])])

\* Array.prototype.flat() on an array of arrays.
RECURSIVE flat(_)
flat(arrays) ==
  IF arrays = <<>> THEN <<>> ELSE Head(arrays) \o flat(Tail(arrays))

\* Length of the run of line feeds that starts at position i of s.
RECURSIVE lineFeedRun(_, _)
lineFeedRun(s, i) ==
  IF i <= Len(s) /\ s[i] = LF THEN 1 + lineFeedRun(s, i + 1) ELSE 0

\* s.split(/\n{minRun,}/): the regular expression is greedy, so a separator
\* is a whole run of at least minRun line feeds; shorter runs stay in the
\* piece.  The pieces are what lies between consecutive separators.
splitOnLineFeeds(s, minRun) ==
  LET isSeparatorStart(i) ==
        /\ s[i] = LF
        /\ (i = 1 \/ s[i - 1] # LF)
        /\ lineFeedRun(s, i) >= minRun
      starts == SelectSeq([i \in 1..Len(s) |-> i], isSeparatorStart)
      pieceStart(k) == IF k = 1 THEN 1
                       ELSE starts[k - 1] + lineFeedRun(s, starts[k - 1])
      pieceEnd(k) == IF k = Len(starts) + 1 THEN Len(s) ELSE starts[k] - 1
  IN  [k \in 1..(Len(starts) + 1) |-> SubSeq(s, pieceStart(k), pieceEnd(k))]

\* A test that never finds, or always finds, a blank line.
hasBlankLineNever(s) == FALSE
hasBlankLineAlways(s) == TRUE

\* /\n{2,}/.test(s)
hasBlankLine(s) == \E i \in 1..(Len(s) - 1) : s[i] = LF /\ s[i + 1] = LF

(***************************************************************************)
(* chunking.js                                                             *)
(***************************************************************************)
\* text.replace(/\r\n?/g, '\n')
normalizeNewlines(text) ==
  LET \* a line feed right after a carriage return belongs to its match
      isKept(i) == ~(text[i] = LF /\ i > 1 /\ text[i - 1] = CR)
      kept == SelectSeq([i \in 1..Len(text) |-> i], isKept)
  IN  [k \in 1..Len(kept) |-> IF text[kept[k]] = CR THEN LF ELSE text[kept[k]]]

splitIntoParagraphs(text) ==
  LET normalized == trim(normalizeNewlines(text))
  IN  IF normalized = <<>> THEN <<>>
      ELSE LET parts == IF hasBlankLine(normalized)
                        THEN splitOnLineFeeds(normalized, 2)
                        ELSE splitOnLineFeeds(normalized, 1)
           IN  trimAndFilter(parts)

RECURSIVE hardSplitFrom(_, _, _)
hardSplitFrom(text, cursor, maxChunkChars) ==
  IF cursor < Len(text)
  THEN <<SubSeq(text, cursor + 1, Min(cursor + maxChunkChars, Len(text)))>>
         \o hardSplitFrom(text, cursor + maxChunkChars, maxChunkChars)
  ELSE <<>>

\* A hardSplit that leaves the text in one piece.
hardSplitKeepsWhole(text, maxChunkChars) == <<text>>

hardSplit(text, maxChunkChars) == hardSplitFrom(text, 0, maxChunkChars)

\* End (exclusive) of the longest run, starting at i, of characters that are
\* (inClass = TRUE) or are not (inClass = FALSE) sentence terminators.
runEnd(s, i, inClass) ==
  LET stops == {j \in i..Len(s) : (s[j] \in SentenceTerminators) # inClass}
  IN  IF stops = {} THEN Len(s) + 1
      ELSE CHOOSE j \in stops : \A k \in stops : j <= k

\* text.match(/[^.!?؟؛]+[.!?؟؛]*/g): the successive matches, left to right.
\* A match needs one non-terminator first, so terminators that no match has
\* consumed (those at the start of the text) are skipped.
RECURSIVE sentenceMatches(_, _)
sentenceMatches(s, i) ==
  IF i > Len(s) THEN <<>>
  ELSE IF s[i] \in SentenceTerminators
       THEN sentenceMatches(s, runEnd(s, i, TRUE))
       ELSE LET j == runEnd(s, runEnd(s, i, FALSE), TRUE)
            IN  <<SubSeq(s, i, j - 1)>> \o sentenceMatches(s, j)

splitBySentence(text) ==
  LET matches == sentenceMatches(text, 1)
  IN  IF matches = <<>> THEN <<text>> ELSE trimAndFilter(matches)

RECURSIVE expandSentences(_, _)
expandSentences(sentenceParts, maxChunkChars) ==
  IF sentenceParts = <<>> THEN <<>>
  ELSE (IF Len(Head(sentenceParts)) <= maxChunkChars
        THEN <<Head(sentenceParts)>>
        ELSE hardSplit(Head(sentenceParts), maxChunkChars))
       \o expandSentences(Tail(sentenceParts), maxChunkChars)

splitSegment(segment, maxChunkChars) ==
  IF Len(segment) <= maxChunkChars THEN <<segment>>
  ELSE expandSentences(splitBySentence(segment), maxChunkChars)

\* The loop of packSegments from segment i on, with its locals packed and current.
RECURSIVE packFrom(_, _, _, _, _)
packFrom(segments, i, packed, current, maxChunkChars) ==
  IF i > Len(segments)
  THEN IF current # <<>> THEN Append(packed, current) ELSE packed
  ELSE LET segment == segments[i]
           candidate == IF current # <<>> THEN current \o <<SP>> \o segment
                        ELSE segment
           flushed == IF current # <<>> THEN Append(packed, current) ELSE packed
           forced == hardSplit(segment, maxChunkChars)
       IN  IF Len(candidate) <= maxChunkChars
           THEN packFrom(segments, i + 1, packed, candidate, maxChunkChars)
           ELSE IF Len(segment) <= maxChunkChars
           THEN packFrom(segments, i + 1, flushed, segment, maxChunkChars)
           ELSE packFrom(segments, i + 1,
                         flushed \o SubSeq(forced, 1, Len(forced) - 1),
                         IF forced = <<>> THEN <<>> ELSE forced[Len(forced)],
                         maxChunkChars)

packSegments(segments, maxChunkChars) ==
  packFrom(segments, 1, <<>>, <<>>, maxChunkChars)

splitOverlongParagraph(paragraph, maxChunkChars) ==
  LET lineSegments == trimAndFilter(splitOnLineFeeds(paragraph, 1))
      normalizedSegments == IF Len(lineSegments) > 0 THEN lineSegments
                            ELSE <<paragraph>>
      expanded == flat([i \in 1..Len(normalizedSegments) |->
                          splitSegment(normalizedSegments[i], maxChunkChars)])
  IN  packSegments(expanded, maxChunkChars)

\* The unit built for the paragraph at 0-based position index.
paragraphUnitIdFromZero(paragraph, index, maxChunkChars) ==
  [id |-> index,
   ar |-> paragraph,
   subChunks |-> IF Len(paragraph) <= maxChunkChars THEN <<paragraph>>
                 ELSE splitOverlongParagraph(paragraph, maxChunkChars)]

\* A unit whose paragraph is always sent through splitOverlongParagraph.
paragraphUnitAlwaysSplit(paragraph, index, maxChunkChars) ==
  [id |-> index + 1,
   ar |-> paragraph,
   subChunks |-> splitOverlongParagraph(paragraph, maxChunkChars)]

paragraphUnit(paragraph, index, maxChunkChars) ==
  [id |-> index + 1,
   ar |-> paragraph,
   subChunks |-> IF Len(paragraph) <= maxChunkChars THEN <<paragraph>>
                 ELSE splitOverlongParagraph(paragraph, maxChunkChars)]

buildParagraphUnits(text, maxChunkChars) ==
  LET paragraphs == splitIntoParagraphs(text)
  IN  [i \in 1..Len(paragraphs) |->
         paragraphUnit(paragraphs[i], i - 1, maxChunkChars)]

(***************************************************************************)
(* config.js                                                               *)
(***************************************************************************)
\* A JavaScript value that is absent, or a number.
Undefined == [type |-> "undefined"]
Num(n) == [type |-> "number", value |-> n]

DefaultMaxChunkChars == 2200
DefaultConcurrency == 3

\* Number.parseInt(value, 10) of an environment variable: a number, or NaN
\* (variable unset or no number), for which the fallback is taken.
parseInteger(value, fallback) ==
  IF value.type # "number" THEN fallback ELSE value.value

\* The two numeric settings of loadConfig() for an environment.
loadConfig(env) ==
  [maxChunkChars |-> parseInteger(env.MAX_CHUNK_CHARS, DefaultMaxChunkChars),
   concurrency |-> parseInteger(env.CONCURRENCY, DefaultConcurrency)]

\* The server's config with MAX_CHUNK_CHARS and CONCURRENCY unset.
UnsetEnv == [MAX_CHUNK_CHARS |-> Undefined, CONCURRENCY |-> Undefined]
config == loadConfig(UnsetEnv)

\* Number.parseInt(value, 10) gives NaN for an absent value.
clampInt(value, fallback, min, max) ==
  IF value.type # "number" THEN fallback
  ELSE Max(min, Min(max, value.value))

MinChunkChars == 200
MaxChunkCharsCap == 10000
MinConcurrency == 1
MaxConcurrencyCap == 10

(***************************************************************************)
(* translator.js: response validation                                      *)
(***************************************************************************)
MAX_RETRIES_OneMore == 2 + 1
MAX_RETRIES == 2
BASE_BACKOFF_MS == 350
JitterRange == 120

\* JSON values, as far as validateFaArrayObject looks into them.
JsonString(s) == [type |-> "string", value |-> s]
JsonNumber(n) == [type |-> "number", value |-> n]
JsonArray(items) == [type |-> "array", items |-> items]
JsonObject(keys, fa) == [type |-> "object", keys |-> keys, fa |-> fa]

\* What JSON.parse does with a candidate that is not JSON.
SyntaxError == [type |-> "SyntaxError"]
\* A candidate the extraction strategy does not produce.
NoCandidate == [type |-> "none"]

validateFaArrayObject(payload, expectedLength) ==
  IF payload.type # "object" THEN Null
  ELSE IF Len(payload.keys) # 1 \/ payload.keys[1] # "fa" THEN Null
  ELSE IF payload.fa.type # "array" \/ Len(payload.fa.items) # expectedLength
  THEN Null
  ELSE IF \E i \in 1..Len(payload.fa.items) : payload.fa.items[i].type # "string"
  THEN Null
  ELSE [fa |-> [i \in 1..Len(payload.fa.items) |->
                  trim(payload.fa.items[i].value)]]

\* A raw response is given by what JSON.parse makes of each of its three
\* candidates: the whole trimmed text, the content of the first fenced code
\* block (if any), and the substring from the first { to the last } (if any).
rawResponse(whole, fenced, braces) ==
  [whole |-> whole, fenced |-> fenced, braces |-> braces]

\* Candidates without the two extraction strategies.
candidatesOfWholeOnly(rawText) == <<rawText.whole>>

candidatesOf(rawText) ==
  <<rawText.whole>>
    \o (IF rawText.fenced.type # "none" THEN <<rawText.fenced>> ELSE <<>>)
    \o (IF rawText.braces.type # "none" THEN <<rawText.braces>> ELSE <<>>)

RECURSIVE firstValid(_, _)
firstValid(candidates, expectedLength) ==
  IF candidates = <<>> THEN Null
  ELSE IF Head(candidates).type # "SyntaxError"
          /\ validateFaArrayObject(Head(candidates), expectedLength) # Null
       THEN validateFaArrayObject(Head(candidates), expectedLength)
       ELSE firstValid(Tail(candidates), expectedLength)

safeParseJson(rawText, expectedLength) ==
  firstValid(candidatesOf(rawText), expectedLength)

(***************************************************************************)
(* translator.js: a raw response as text                                   *)
(***************************************************************************)
\* The text of a response is a sequence of tokens: white space, the fence
\* (three backquotes), the word json, prose, and the tokens of JSON.
FENCE == "<fence>"
Prose == "x"

\* The JSON string literals of the texts, with the string each denotes.
\* The translations are padded with white space, as a model may write them.
StringLiterals ==
  [fa |-> <<"f", "a">>,
   fb |-> <<"f", "b">>,
   s1 |-> <<SP, "s", "1", LF>>,
   s2 |-> <<"s", "2", SP>>,
   s3 |-> <<"s", "3">>,
   s4 |-> <<TAB, "s", "4">>]
NumberLiterals == {"7"}

ParseFailed == [ok |-> FALSE, value |-> Null, next |-> 0]
Parsed(value, next) == [ok |-> TRUE, value |-> value, next |-> next]

\* JSON.parse on the tokens t (white space removed), from position i: the
\* value that starts there and the position after it.
RECURSIVE parseValue(_, _)
RECURSIVE parseElements(_, _, _)
RECURSIVE parseMembers(_, _, _, _)
parseValue(t, i) ==
  IF i > Len(t) THEN ParseFailed
  ELSE IF t[i] \in DOMAIN StringLiterals
       THEN Parsed(JsonString(StringLiterals[t[i]]), i + 1)
  ELSE IF t[i] \in NumberLiterals THEN Parsed(JsonNumber(7), i + 1)
  ELSE IF t[i] = "["
       THEN IF i + 1 <= Len(t) /\ t[i + 1] = "]"
            THEN Parsed(JsonArray(<<>>), i + 2)
            ELSE parseElements(t, i + 1, <<>>)
  ELSE IF t[i] = "{"
       THEN IF i + 1 <= Len(t) /\ t[i + 1] = "}"
            THEN Parsed(JsonObject(<<>>, Null), i + 2)
            ELSE parseMembers(t, i + 1, <<>>, Null)
  ELSE ParseFailed

parseElements(t, i, items) ==
  LET v == parseValue(t, i)
  IN  IF ~v.ok \/ v.next > Len(t) THEN ParseFailed
      ELSE IF t[v.next] = ","
           THEN parseElements(t, v.next + 1, Append(items, v.value))
      ELSE IF t[v.next] = "]"
           THEN Parsed(JsonArray(Append(items, v.value)), v.next + 1)
      ELSE ParseFailed

parseMembers(t, i, keys, fa) ==
  IF ~(i + 1 <= Len(t) /\ t[i] \in DOMAIN StringLiterals /\ t[i + 1] = ":")
  THEN ParseFailed
  ELSE LET v == parseValue(t, i + 2)
           keys1 == Append(keys, t[i])
           fa1 == IF t[i] = "fa" THEN v.value ELSE fa
       IN  IF ~v.ok \/ v.next > Len(t) THEN ParseFailed
           ELSE IF t[v.next] = ","
                THEN parseMembers(t, v.next + 1, keys1, fa1)
           ELSE IF t[v.next] = "}"
                THEN Parsed(JsonObject(keys1, fa1), v.next + 1)
           ELSE ParseFailed

\* JSON.parse(candidate): the value, or SyntaxError.
JSONparse(candidate) ==
  LET isToken(c) == c \notin WhiteSpace
      t == SelectSeq(candidate, isToken)
      v == parseValue(t, 1)
  IN  IF v.ok /\ v.next = Len(t) + 1 THEN v.value ELSE SyntaxError

\* text.match(/<fence>(?:json)?\s*([\s\S]*?)\s*<fence>/i)?.[1], trimmed: what lies
\* between the first fence (and a json right after it) and the next fence.
\* Without a match, or with an empty capture, there is no such candidate.
fencedCandidate(text) ==
  LET fences == {i \in 1..Len(text) : text[i] = FENCE}
      open == CHOOSE i \in fences : \A j \in fences : i <= j
      close == CHOOSE i \in fences \ {open} : \A j \in fences \ {open} : i <= j
      start == IF open + 1 < close /\ text[open + 1] \in {"json", "JSON"}
               THEN open + 2 ELSE open + 1
  IN  IF Cardinality(fences) < 2 THEN <<>>
      ELSE trim(SubSeq(text, start, close - 1))

\* text.slice(firstBrace, lastBrace + 1), if lastBrace > firstBrace.
bracesCandidate(text) ==
  LET opens == {i \in 1..Len(text) : text[i] = "{"}
      closes == {i \in 1..Len(text) : text[i] = "}"}
      firstBrace == CHOOSE i \in opens : \A j \in opens : i <= j
      lastBrace == CHOOSE i \in closes : \A j \in closes : i >= j
  IN  IF opens = {} \/ closes = {} THEN <<>>
      ELSE IF lastBrace > firstBrace THEN SubSeq(text, firstBrace, lastBrace)
      ELSE <<>>

\* The raw response a text is: what JSON.parse makes of its candidates.
responseOfText(rawText) ==
  LET text == trim(rawText)
      fenced == fencedCandidate(text)
      braces == bracesCandidate(text)
  IN  rawResponse(JSONparse(text),
                  IF fenced = <<>> THEN NoCandidate ELSE JSONparse(fenced),
                  IF braces = <<>> THEN NoCandidate ELSE JSONparse(braces))

(***************************************************************************)
(* translator.js: batching, mapping, merge                                 *)
(***************************************************************************)
\* The loop of buildParagraphBatches from unit i on.
RECURSIVE batchFrom(_, _, _, _, _, _)
batchFrom(units_, i, batches_, currentBatch, currentBatchChars, maxBatchChars_) ==
  IF i > Len(units_)
  THEN IF Len(currentBatch) > 0 THEN Append(batches_, currentBatch) ELSE batches_
  ELSE LET unit == units_[i]
           paragraphLength == Len(unit.ar)
           nextChars == currentBatchChars
                          + (IF Len(currentBatch) > 0 THEN 2 ELSE 0)
                          + paragraphLength
           close == Len(currentBatch) > 0 /\ nextChars > maxBatchChars_
           batch0 == IF close THEN <<>> ELSE currentBatch
           chars0 == IF close THEN 0 ELSE currentBatchChars
           batch1 == Append(batch0, unit)
       IN  batchFrom(units_, i + 1,
                     IF close THEN Append(batches_, currentBatch) ELSE batches_,
                     batch1,
                     chars0 + (IF Len(batch1) > 1 THEN 2 ELSE 0) + paragraphLength,
                     maxBatchChars_)

\* buildParagraphBatches with a limit that forgets the joiner of one joint.
buildParagraphBatchesLooseLimit(units_, maxBatchChars_) ==
  batchFrom(units_, 1, <<>>, <<>>, 0, maxBatchChars_ + 2)

\* buildParagraphBatches without the final push of the open batch.
buildParagraphBatchesLosesOpenBatch(units_, maxBatchChars_) ==
  LET all == batchFrom(units_, 1, <<>>, <<>>, 0, maxBatchChars_)
  IN  SubSeq(all, 1, Len(all) - 1)

buildParagraphBatches(units_, maxBatchChars_) ==
  batchFrom(units_, 1, <<>>, <<>>, 0, maxBatchChars_)

\* fallbackUsed ? 'done_fallback' : 'done'
batchStatusAlwaysDone(fallbackUsed) == "done"
batchStatus(fallbackUsed) == IF fallbackUsed THEN "done_fallback" ELSE "done"

\* One element of mapBatchToParagraphPairs: the pair for the unit at 1-based
\* position index of the batch.
paragraphPairIdFromIndex(unit, index, faList, status, attemptsList) ==
  [id |-> index,
   ar |-> unit.ar,
   fa |-> IF index <= Len(faList) THEN faList[index] ELSE <<>>,
   status |-> status,
   attempts |-> IF index <= Len(attemptsList) THEN attemptsList[index] ELSE 0]

paragraphPairFirstFa(unit, index, faList, status, attemptsList) ==
  [id |-> unit.id,
   ar |-> unit.ar,
   fa |-> IF 1 <= Len(faList) THEN faList[1] ELSE <<>>,
   status |-> status,
   attempts |-> IF index <= Len(attemptsList) THEN attemptsList[index] ELSE 0]

paragraphPair(unit, index, faList, status, attemptsList) ==
  [id |-> unit.id,
   ar |-> unit.ar,
   fa |-> IF index <= Len(faList) THEN faList[index] ELSE <<>>,
   status |-> status,
   attempts |-> IF index <= Len(attemptsList) THEN attemptsList[index] ELSE 0]

mapBatchToParagraphPairs(batch, faList, status, attemptsList) ==
  [index \in 1..Len(batch) |->
     paragraphPair(batch[index], index, faList, status, attemptsList)]

\* Array.prototype.sort((a, b) => a.id - b.id): a stable sort by id.
RECURSIVE insertById(_, _)
insertById(sorted, item) ==
  IF sorted = <<>> THEN <<item>>
  ELSE IF sorted[Len(sorted)].id <= item.id THEN Append(sorted, item)
       ELSE Append(insertById(SubSeq(sorted, 1, Len(sorted) - 1), item),
                   sorted[Len(sorted)])

RECURSIVE sortFrom(_, _, _)
sortFrom(items, i, sorted) ==
  IF i > Len(items) THEN sorted
  ELSE sortFrom(items, i + 1, insertById(sorted, items[i]))

sortById(items) == sortFrom(items, 1, <<>>)

(***************************************************************************)
(* index.js: toFlatOrderedChunks                                           *)
(***************************************************************************)
\* Every item that reaches toFlatOrderedChunks comes from
\* mapBatchToParagraphPairs: ar and fa are strings and id is a number, so
\* the branch for array-valued ar/fa is never taken.
toFlatOrderedChunks(items) ==
  sortById([i \in 1..Len(items) |->
              [id |-> items[i].id, ar |-> items[i].ar, fa |-> items[i].fa]])

(***************************************************************************)
(* Bounds of the model and the inputs drawn within them                    *)
(***************************************************************************)
\* Largest number of paragraphs of a request text.
MaxUnits == 3
\* Largest options.concurrency a request asks for.
MaxConcurrency == 2

\* Largest number of model calls of one run that fail (an invalid response
\* or a transport error); further calls succeed.
MaxFailures == 6

\* Paragraph lengths of the request texts, one text for every way up to
\* three paragraphs fall into batches of 200 characters (and two texts of
\* four): short paragraphs share a batch, two long ones do not.
Short == 1
Long == 100
\* A paragraph longer than the smallest maxChunkChars a request can ask for.
Huge == 201
SampleLengths ==
  {<<Short>>, <<Huge>>, <<Short, Short>>, <<Long, Long>>,
   <<Short, Short, Short>>, <<Short, Long, Long>>, <<Long, Long, Short>>,
   <<Long, Long, Long>>,
   <<Short, Short, Short, Short>>, <<Long, Long, Short, Short>>}
\* Jitter values Math.floor(Math.random() * 120) is sampled at.
JitterSamples == {0, JitterRange - 1}

Letters == <<"a", "b", "c", "d", "e">>
\* The i-th paragraph of a text: n copies of the i-th letter.
Paragraph(i, n) == [k \in 1..n |-> Letters[((i - 1) % Len(Letters)) + 1]]

\* The paragraphs of given lengths, separated by blank lines.
RECURSIVE joinParagraphs(_, _)
joinParagraphs(lengths, i) ==
  IF i > Len(lengths) THEN <<>>
  ELSE (IF i > 1 THEN <<LF, LF>> ELSE <<>>)
       \o Paragraph(i, lengths[i]) \o joinParagraphs(lengths, i + 1)

SampleTexts ==
  {joinParagraphs(lengths, 1) :
     lengths \in {l \in SampleLengths : Len(l) <= MaxUnits}}

Str(s) == [type |-> "string", value |-> s]

\* options of a request body: both fields absent, or both given.
RequestOptions ==
  {[maxChunkChars |-> Undefined, concurrency |-> Undefined]}
    \cup {[maxChunkChars |-> Num(MinChunkChars), concurrency |-> Num(c)] :
            c \in 1..MaxConcurrency}

NoOptions == [maxChunkChars |-> Undefined, concurrency |-> Undefined]

\* Request bodies: a text with options, or a text validateTextInput refuses
\* (missing, not a string, empty, whitespace only).
RequestBodies ==
  {[text |-> Str(t), options |-> o] : t \in SampleTexts, o \in RequestOptions}
    \cup {[text |-> t, options |-> NoOptions] :
            t \in {Undefined, Num(7), Str(<<>>), Str(<<SP, LF, SP>>)}}

(***************************************************************************)
(* The model (the external translation service)                            *)
(***************************************************************************)
\* The translation of the unit with the given id, as the model writes it:
\* padded with white space, as the repository's own mock "ترجمه <id>" is not.
translationOf(id) == <<SP, "f", "a", ToString(id), LF>>

\* The {"fa": [...]} object a well-behaved model returns for a batch.
goodPayload(batch) ==
  JsonObject(<<"fa">>,
             JsonArray([i \in 1..Len(batch) |-> JsonString(translationOf(batch[i].id))]))

\* The same with the last translation missing: an array of the wrong length.
shortPayload(batch) ==
  JsonObject(<<"fa">>,
             JsonArray([i \in 1..(Len(batch) - 1) |->
                          JsonString(translationOf(batch[i].id))]))

\* The raw responses the model may give to a request for the given units:
\* bare JSON, the JSON in a fenced code block, JSON of the wrong length,
\* and text with no JSON in it.
ModelResponses(batch) ==
  {rawResponse(goodPayload(batch), NoCandidate, goodPayload(batch)),
   rawResponse(SyntaxError, goodPayload(batch), goodPayload(batch)),
   rawResponse(shortPayload(batch), NoCandidate, shortPayload(batch)),
   rawResponse(SyntaxError, NoCandidate, NoCandidate)}

\* A model call ends with a response or with a transport error.
ModelReplies(batch) ==
  {[threw |-> FALSE, content |-> raw] : raw \in ModelResponses(batch)}
    \cup {[threw |-> TRUE, content |-> rawResponse(SyntaxError, NoCandidate, NoCandidate)]}

(***************************************************************************)
(* State                                                                   *)
(***************************************************************************)
VARIABLES
  \* index.js, one request
  endpoint,      \* "none", "translate" or "translate-stream"
  hpc,           \* the handler: "idle", "awaiting" (translateUnits), "done"
  options,       \* the handler's clamped {concurrency, maxChunkChars}
  units,         \* buildParagraphUnits(payload.text, maxChunkChars)
  response,      \* the JSON response (res.json), or Null
  events,        \* the lines written to the stream before res.end()
  ended,         \* res.end() has been called
  lateWrites,    \* calls of res.write after res.end()
  \* translateUnits
  concurrency, maxBatchChars, batches, completed,
  promise,       \* the promise translateUnits returned
  \* mapWithConcurrency
  cursor, results, runners,
  \* history (not program state)
  claimCount,    \* 0-based batch index -> times a runner claimed it
  callCount,     \* 0-based batch index -> model calls made for it
  failures,      \* failed model calls of the run
  invocationLog, \* the finished invocations of translateBatchWithRetries
  \* chunking.verify.js, run on any text
  vpc,           \* "off", "start", "built", "translated", "flat"
  verifyText,    \* the text given to buildParagraphUnits
  verifyLimit,   \* its maxChunkChars
  verifyUnits,   \* units
  verifyItems,   \* mockTranslated, in the order the pairs arrive
  verifyFlat,    \* flatChunks
  \* one call of an exported or internal function on drawn arguments
  call,          \* the function and its arguments, or NoCall
  returned       \* what the call returned, or NotReturned

vars == <<endpoint, hpc, options, units, response, events, ended, lateWrites,
          concurrency, maxBatchChars, batches, completed, promise,
          cursor, results, runners, claimCount, callCount, failures,
          invocationLog,
          vpc, verifyText, verifyLimit, verifyUnits, verifyItems, verifyFlat,
          call, returned>>

callVars == <<call, returned>>
verifyVars == <<vpc, verifyText, verifyLimit, verifyUnits, verifyItems, verifyFlat>>
serverVars == <<endpoint, hpc, options, units, response, events, ended, lateWrites,
                concurrency, maxBatchChars, batches, completed, promise,
                cursor, results, runners, claimCount, callCount, failures,
                invocationLog>>

\* What the server does not touch.
offlineVars == <<verifyVars, callVars>>

handlerVars == <<endpoint, hpc, options, units, response>>
streamVars == <<events, ended, lateWrites>>
translateVars == <<concurrency, maxBatchChars, batches>>
historyVars == <<claimCount, callCount, failures, invocationLog>>

NoPromise == [state |-> "none"]
Pending == [state |-> "pending"]
Resolved(value) == [state |-> "resolved", value |-> value]
Rejected(error) == [state |-> "rejected", error |-> error]

UnknownError == "Unknown translation error"
InvalidJsonError == "Model response was not valid strict JSON in {\"fa\": string[]} format."
TransportError == "transport error"

\* The server before a request.
ServerIdle ==
  /\ endpoint = "none"
  /\ hpc = "idle"
  /\ options = Null
  /\ units = <<>>
  /\ response = Null
  /\ events = <<>>
  /\ ended = FALSE
  /\ lateWrites = 0
  /\ concurrency = 0
  /\ maxBatchChars = 0
  /\ batches = <<>>
  /\ completed = 0
  /\ promise = NoPromise
  /\ cursor = 0
  /\ results = <<>>
  /\ runners = <<>>
  /\ claimCount = <<>>
  /\ callCount = <<>>
  /\ failures = 0
  /\ invocationLog = {}

VerifyOff ==
  /\ vpc = "off"
  /\ verifyText = <<>>
  /\ verifyLimit = 0
  /\ verifyUnits = <<>>
  /\ verifyItems = <<>>
  /\ verifyFlat = <<>>

NoCall == [fn |-> "none"]
NotReturned == [type |-> "pending"]
Returned(value) == [type |-> "returned", value |-> value]
CallOff ==
  /\ call = NoCall
  /\ returned = NotReturned

Init == ServerIdle /\ VerifyOff /\ CallOff

(***************************************************************************)
(* translator.js: the worker of translateUnits, one runner's view          *)
(***************************************************************************)
RECURSIVE Pow2(_)
Pow2(n) == IF n = 0 THEN 1 ELSE 2 * Pow2(n - 1)

\* A backoff that does not double.
backoffMsFlat(attempt, jitter) == BASE_BACKOFF_MS + jitter
\* const backoffMs = BASE_BACKOFF_MS * 2 ** attempt + jitter
backoffMs(attempt, jitter) == BASE_BACKOFF_MS * Pow2(attempt) + jitter

\* Paragraphs cut down to each unit's first sub-chunk.
paragraphsOfFirstSubChunk(batch) ==
  [i \in 1..Len(batch) |-> batch[i].subChunks[1]]

\* const paragraphs = batch.map((unit) => unit.ar)
paragraphsOf(batch) == [i \in 1..Len(batch) |-> batch[i].ar]

\* translateBatchWithRetries has just been called with arabicParagraphs and
\* has issued its first model call (attempt 0).  callsMade, failedCalls and
\* waits count this invocation's calls, failed calls and sleeps, and firstReply
\* and lastReply tell how its first and its latest failed call ended,
\* "invalid" or "threw" (history).
newInvocation(arabicParagraphs) ==
  [arabicParagraphs |-> arabicParagraphs,
   attempt |-> 0,
   lastError |-> UnknownError,
   backoffMs |-> 0,
   callsMade |-> 1,
   failedCalls |-> 0,
   waits |-> 0,
   firstReply |-> "none",
   lastReply |-> "none"]

\* A runner that has claimed the 0-based index and whose worker has called
\* translateBatchWithRetries for the whole batch.
startWorker(batch, index) ==
  [pc |-> "call",
   index |-> index,
   fallbackUsed |-> FALSE,
   fallbackFa |-> <<>>,
   perItemAttempts |-> <<>>,
   mapped |-> <<>>,
   inv |-> newInvocation(paragraphsOf(batch))]

\* The runner found no batch left and returned.
returnedRunner(index) ==
  [pc |-> "returned",
   index |-> index,
   fallbackUsed |-> FALSE,
   fallbackFa |-> <<>>,
   perItemAttempts |-> <<>>,
   mapped |-> <<>>,
   inv |-> newInvocation(<<>>)]

\* One turn of a runner's loop on the index it took from the cursor: it
\* returns when no item is left, and calls the worker otherwise.
startRunner(items, index) ==
  IF index >= Len(items) THEN returnedRunner(index)
  ELSE startWorker(items[index + 1], index)

\* const workerCount = Math.max(1, Math.min(concurrency, items.length))
workerCountMissingCap(concurrency_, itemCount) == Max(1, itemCount)
workerCount(concurrency_, itemCount) == Max(1, Min(concurrency_, itemCount))

\* cursor += 1
nextCursorStuck(cursor_) == cursor_
nextCursorSkips(cursor_) == cursor_ + 2
nextCursor(cursor_) == cursor_ + 1

\* The units of the request the runner's current invocation is about:
\* the whole batch, or the one unit the fallback loop has reached.
requestedUnits(r) ==
  LET batch == batches[r.index + 1]
  IN  IF r.fallbackUsed THEN <<batch[Len(r.fallbackFa) + 1]>> ELSE batch

\* Position in the batch of the invocation: 0 for the combined call, i for
\* the single call of the i-th unit.
positionOf(r) == IF r.fallbackUsed THEN Len(r.fallbackFa) + 1 ELSE 0

logEntry(r, outcome, attempts) ==
  [index |-> r.index,
   position |-> positionOf(r),
   outcome |-> outcome,
   calls |-> r.inv.callsMade,
   failed |-> r.inv.failedCalls + (IF outcome = "raised" THEN 1 ELSE 0),
   attempts |-> attempts,
   waits |-> r.inv.waits,
   firstReply |-> IF outcome = "raised" THEN r.inv.firstReply ELSE "none",
   lastReply |-> IF outcome = "raised" THEN r.inv.lastReply ELSE "none",
   error |-> IF outcome = "raised" THEN r.inv.lastError ELSE ""]

\* onProgress of the streaming endpoint: one progress line per chunk.
progressEvent(chunk, completed_, totalChunks) ==
  [type |-> "progress",
   completed |-> completed_,
   totalChunks |-> totalChunks,
   chunk |-> toFlatOrderedChunks(<<chunk>>)[1]]

\* A loop that reports, for every chunk, the count after the whole batch.
progressEventsBatchCount(mapped) ==
  [i \in 1..Len(mapped) |->
     progressEvent(mapped[i], completed + Len(mapped), Len(units))]

\* The for loop over mapped: completed += 1 and onProgress per chunk.
progressEvents(mapped) ==
  [i \in 1..Len(mapped) |-> progressEvent(mapped[i], completed + i, Len(units))]

\* res.write of a sequence of lines: they reach the stream until res.end().
WriteLines(lines) ==
  IF ended
  THEN /\ lateWrites' = lateWrites + Len(lines)
       /\ UNCHANGED <<events, ended>>
  ELSE /\ events' = events \o lines
       /\ UNCHANGED <<ended, lateWrites>>

\* The worker, after its try/catch: maps the batch, counts and reports its
\* units, and returns mapped to the runner (which is resumed later).
WorkerFinishes(w, r, faList, status, attemptsList, entry) ==
  LET mapped == mapBatchToParagraphPairs(batches[r.index + 1], faList,
                                         status, attemptsList)
  IN  /\ runners' = [runners EXCEPT ![w] =
                       [r EXCEPT !.pc = "mapped", !.mapped = mapped,
                                 !.perItemAttempts = attemptsList,
                                 !.fallbackFa = IF r.fallbackUsed THEN faList
                                                ELSE r.fallbackFa]]
      /\ completed' = completed + Len(mapped)
      /\ IF endpoint = "translate-stream"
         THEN WriteLines(progressEvents(mapped))
         ELSE UNCHANGED streamVars
      /\ invocationLog' = invocationLog \cup {entry}
      /\ UNCHANGED <<handlerVars, translateVars, promise, cursor, results,
                     claimCount, callCount>>

\* translateBatchWithRetries returns {fa, attempts}.
InvocationReturns(w, r, fa, attempts) ==
  LET entry == logEntry(r, "returned", attempts)
  IN  IF ~r.fallbackUsed
      THEN WorkerFinishes(w, r, fa, batchStatus(r.fallbackUsed),
                          [i \in 1..Len(batches[r.index + 1]) |-> attempts],
                          entry)
      ELSE LET fallbackFa == Append(r.fallbackFa,
                                    IF Len(fa) >= 1 THEN fa[1] ELSE <<>>)
               perItemAttempts == Append(r.perItemAttempts, attempts)
               batch == batches[r.index + 1]
           IN  IF Len(fallbackFa) < Len(batch)
               THEN \* the next paragraph of the for loop: a new invocation
                    /\ runners' = [runners EXCEPT ![w] =
                         [r EXCEPT !.fallbackFa = fallbackFa,
                                   !.perItemAttempts = perItemAttempts,
                                   !.inv = newInvocation(
                                     <<batch[Len(fallbackFa) + 1].ar>>)]]
                    /\ callCount' = [callCount EXCEPT ![r.index + 1] = @ + 1]
                    /\ invocationLog' = invocationLog \cup {entry}
                    /\ UNCHANGED <<handlerVars, streamVars, translateVars,
                                   completed, promise, cursor, results,
                                   claimCount>>
               ELSE WorkerFinishes(w, r, fallbackFa, batchStatus(r.fallbackUsed),
                                   perItemAttempts, entry)

\* translateBatchWithRetries throws lastError after its last attempt.
InvocationThrows(w, r, lastError) ==
  LET entry == logEntry([r EXCEPT !.inv.lastError = lastError], "raised", 0)
      batch == batches[r.index + 1]
  IN  IF ~r.fallbackUsed
      THEN \* catch: the fallback loop starts with the first paragraph
           /\ runners' = [runners EXCEPT ![w] =
                [r EXCEPT !.fallbackUsed = TRUE,
                          !.fallbackFa = <<>>,
                          !.inv = newInvocation(<<batch[1].ar>>)]]
           /\ callCount' = [callCount EXCEPT ![r.index + 1] = @ + 1]
           /\ invocationLog' = invocationLog \cup {entry}
           /\ UNCHANGED <<handlerVars, streamVars, translateVars, completed,
                          promise, cursor, results, claimCount>>
      ELSE \* nothing catches it: the worker, and with it the runner, rejects;
           \* Promise.all rejects with the first rejection.
           /\ runners' = [runners EXCEPT ![w] =
                [r EXCEPT !.pc = "failed", !.inv.lastError = lastError,
                          !.inv.failedCalls = @ + 1]]
           /\ promise' = IF promise.state = "pending" THEN Rejected(lastError)
                         ELSE promise
           /\ invocationLog' = invocationLog \cup {entry}
           /\ UNCHANGED <<handlerVars, streamVars, translateVars, completed,
                          cursor, results, claimCount, callCount>>

\* A lastError that keeps the first error observed.
caughtErrorKeepsFirst(lastError, reply) ==
  IF lastError # UnknownError THEN lastError
  ELSE IF reply.threw THEN TransportError ELSE InvalidJsonError

\* The new lastError after a failed attempt: the error the call threw, or
\* the error for an invalid response.
caughtError(lastError, reply) ==
  IF reply.threw THEN TransportError ELSE InvalidJsonError

\* An attempt ended without a valid response.
AttemptFails(w, r, lastError) ==
  IF r.inv.attempt < MAX_RETRIES
  THEN \E jitter \in JitterSamples :
         /\ runners' = [runners EXCEPT ![w] =
              [r EXCEPT !.pc = "sleep",
                        !.inv.lastError = lastError,
                        !.inv.failedCalls = @ + 1,
                        !.inv.waits = @ + 1,
                        !.inv.backoffMs = backoffMs(r.inv.attempt, jitter)]]
         /\ UNCHANGED <<handlerVars, streamVars, translateVars, completed,
                        promise, cursor, results, claimCount, callCount,
                        invocationLog>>
  ELSE InvocationThrows(w, r, lastError)

(***************************************************************************)
(* Actions                                                                 *)
(***************************************************************************)
\* client.chat.completions.create(...) settles for runner w, and the
\* continuation of translateBatchWithRetries runs up to its next await.
ModelReturns(w) ==
  /\ runners[w].pc = "call"
  /\ UNCHANGED offlineVars
  /\ \E reply \in ModelReplies(requestedUnits(runners[w])) :
       LET expectedLength == Len(runners[w].inv.arabicParagraphs)
           parsed == IF reply.threw THEN Null
                     ELSE safeParseJson(reply.content, expectedLength)
           kind == IF reply.threw THEN "threw" ELSE "invalid"
           r == IF parsed # Null THEN runners[w]
                ELSE [runners[w] EXCEPT
                        !.inv.firstReply = IF @ = "none" THEN kind ELSE @,
                        !.inv.lastReply = kind]
       IN  /\ parsed = Null => failures < MaxFailures
           /\ failures' = failures + (IF parsed = Null THEN 1 ELSE 0)
           /\ IF parsed # Null
              THEN InvocationReturns(w, r, parsed.fa, r.inv.attempt + 1)
              ELSE AttemptFails(w, r, caughtError(r.inv.lastError, reply))

\* sleep(backoffMs) ends: attempt += 1 and the next model call is issued.
BackoffEnds(w) ==
  /\ runners[w].pc = "sleep"
  /\ UNCHANGED offlineVars
  /\ runners' = [runners EXCEPT ![w].pc = "call",
                                ![w].inv.attempt = @ + 1,
                                ![w].inv.backoffMs = 0,
                                ![w].inv.callsMade = @ + 1]
  /\ callCount' = [callCount EXCEPT ![runners[w].index + 1] = @ + 1]
  /\ UNCHANGED <<handlerVars, streamVars, translateVars, completed, promise,
                 cursor, results, claimCount, failures, invocationLog>>

\* The runner is resumed with its worker's result: results[index] = mapped,
\* then the next turn of its loop claims the cursor.
RunnerStores(w) ==
  /\ runners[w].pc = "mapped"
  /\ UNCHANGED offlineVars
  /\ LET r == runners[w]
         index == cursor
         stored == [results EXCEPT ![r.index + 1] = r.mapped]
     IN  /\ results' = stored
         /\ cursor' = nextCursor(cursor)
         /\ IF index >= Len(batches)
            THEN /\ runners' = [runners EXCEPT ![w] = returnedRunner(index)]
                 /\ promise' =
                      IF /\ promise.state = "pending"
                         /\ \A v \in DOMAIN runners :
                              v # w => runners[v].pc = "returned"
                      THEN Resolved(sortById(flat(stored)))
                      ELSE promise
                 /\ UNCHANGED <<claimCount, callCount>>
            ELSE /\ runners' = [runners EXCEPT ![w] =
                                  startWorker(batches[index + 1], index)]
                 /\ claimCount' = [claimCount EXCEPT ![index + 1] = @ + 1]
                 /\ callCount' = [callCount EXCEPT ![index + 1] = @ + 1]
                 /\ UNCHANGED promise
  /\ UNCHANGED <<handlerVars, streamVars, translateVars, completed, failures,
                 invocationLog>>

MODEL == "google-ai-studio/gemini-3-pro-preview"
MinBatchChars == 200

\* The 0-based index the k-th runner claims while mapWithConcurrency creates
\* its runners: each runs, without suspending, up to its first model call.
RECURSIVE claimedIndex(_)
claimedIndex(k) == IF k = 1 THEN 0 ELSE nextCursor(claimedIndex(k - 1))

\* Math.max(1, options.concurrency ?? config.concurrency) and
\* Math.max(200, options.maxChunkChars ?? config.maxChunkChars): both
\* endpoints give the two options.
translateConcurrency(options_) == Max(1, options_.concurrency)
translateMaxBatchChars(options_) == Max(MinBatchChars, options_.maxChunkChars)

\* translateUnits(units, config, options), up to its first await: the
\* batches are built and mapWithConcurrency starts its runners.
CallTranslateUnits(units_, options_) ==
  LET concurrency_ == translateConcurrency(options_)
      maxBatchChars_ == translateMaxBatchChars(options_)
      items == buildParagraphBatches(units_, maxBatchChars_)
      count == workerCount(concurrency_, Len(items))
      claimed == [k \in 1..count |-> claimedIndex(k)]
  IN  /\ concurrency' = concurrency_
      /\ maxBatchChars' = maxBatchChars_
      /\ batches' = items
      /\ completed' = 0
      /\ failures' = 0
      /\ invocationLog' = {}
      /\ IF Len(items) = 0
         THEN /\ promise' = Resolved(<<>>)
              /\ cursor' = 0
              /\ results' = <<>>
              /\ runners' = <<>>
              /\ claimCount' = <<>>
              /\ callCount' = <<>>
         ELSE /\ promise' = Pending
              /\ results' = [i \in 1..Len(items) |-> <<>>]
              /\ cursor' = nextCursor(claimed[count])
              /\ runners' = [k \in 1..count |-> startRunner(items, claimed[k])]
              /\ claimCount' = [i \in 1..Len(items) |->
                                  Cardinality({k \in 1..count : claimed[k] + 1 = i})]
              /\ callCount' = [i \in 1..Len(items) |->
                                 Cardinality({k \in 1..count : claimed[k] + 1 = i})]

(***************************************************************************)
(* index.js: the endpoints                                                 *)
(***************************************************************************)
\* validateTextInput without the trim of the text.
validateTextInputWithoutTrim(body) ==
  IF body.text.type # "string" \/ Len(body.text.value) = 0
  THEN Null
  ELSE [type |-> "payload", text |-> body.text.value, options |-> body.options]

validateTextInput(body) ==
  IF body.text.type # "string" \/ Len(trim(body.text.value)) = 0
  THEN Null
  ELSE [type |-> "payload", text |-> body.text.value, options |-> body.options]

BadRequest ==
  [status |-> 400, error |-> "text is required and must be a non-empty string."]

\* The two clampInt calls of a handler, for the server's config config_.
clampedOptionsWith(payload, config_) ==
  [maxChunkChars |-> clampInt(payload.options.maxChunkChars, config_.maxChunkChars,
                              MinChunkChars, MaxChunkCharsCap),
   concurrency |-> clampInt(payload.options.concurrency, config_.concurrency,
                            MinConcurrency, MaxConcurrencyCap)]

clampedOptions(payload) == clampedOptionsWith(payload, config)

metaEvent(units_) == [type |-> "meta", totalChunks |-> Len(units_), model |-> MODEL]

doneEvent(chunks) ==
  [type |-> "done", chunks |-> chunks,
   meta |-> [totalChunks |-> Len(chunks), model |-> MODEL]]

errorEvent(message) == [type |-> "error", error |-> message]

\* The terminal line of the stream for a settled translateUnits promise.
terminalEventAlwaysDone(promise_) == doneEvent(<<>>)
terminalEvent(promise_) ==
  IF promise_.state = "resolved"
  THEN doneEvent(toFlatOrderedChunks(promise_.value))
  ELSE errorEvent(promise_.error)

\* The JSON response of /api/translate for a settled translateUnits promise.
translateResponse(promise_) ==
  IF promise_.state = "resolved"
  THEN LET chunks == toFlatOrderedChunks(promise_.value)
       IN  [status |-> 200, chunks |-> chunks,
            meta |-> [totalChunks |-> Len(chunks), model |-> MODEL]]
  ELSE [status |-> 502, error |-> promise_.error]

\* A request is refused by validateTextInput: 400 and nothing else.
Refuse(name) ==
  /\ endpoint' = name
  /\ hpc' = "done"
  /\ response' = BadRequest
  /\ UNCHANGED <<options, units, streamVars, translateVars, completed, promise,
                 cursor, results, runners, historyVars>>

\* POST /api/translate, up to the await of translateUnits.
PostTranslate(body) ==
  /\ hpc = "idle"
  /\ UNCHANGED offlineVars
  /\ LET payload == validateTextInput(body)
     IN  IF payload = Null
         THEN Refuse("translate")
         ELSE LET opts == clampedOptions(payload)
                  built == buildParagraphUnits(payload.text, opts.maxChunkChars)
              IN  /\ endpoint' = "translate"
                  /\ hpc' = "awaiting"
                  /\ options' = opts
                  /\ units' = built
                  /\ CallTranslateUnits(built, opts)
                  /\ UNCHANGED <<response, streamVars>>

\* POST /api/translate-stream, up to the await of translateUnits: the meta
\* line is written before translateUnits is called.
PostTranslateStream(body) ==
  /\ hpc = "idle"
  /\ UNCHANGED offlineVars
  /\ LET payload == validateTextInput(body)
     IN  IF payload = Null
         THEN Refuse("translate-stream")
         ELSE LET opts == clampedOptions(payload)
                  built == buildParagraphUnits(payload.text, opts.maxChunkChars)
              IN  /\ endpoint' = "translate-stream"
                  /\ hpc' = "awaiting"
                  /\ options' = opts
                  /\ units' = built
                  /\ events' = Append(events, metaEvent(built))
                  /\ CallTranslateUnits(built, opts)
                  /\ UNCHANGED <<response, ended, lateWrites>>

\* /api/translate is resumed by the settled promise: res.json or 502.
TranslateResumes ==
  /\ hpc = "awaiting"
  /\ UNCHANGED offlineVars
  /\ endpoint = "translate"
  /\ promise.state \in {"resolved", "rejected"}
  /\ hpc' = "done"
  /\ response' = translateResponse(promise)
  /\ UNCHANGED <<endpoint, options, units, streamVars, translateVars, completed,
                 promise, cursor, results, runners, historyVars>>

\* /api/translate-stream is resumed by the settled promise: the done or the
\* error line, then res.end().
StreamResumes ==
  /\ hpc = "awaiting"
  /\ UNCHANGED offlineVars
  /\ endpoint = "translate-stream"
  /\ promise.state \in {"resolved", "rejected"}
  /\ hpc' = "done"
  /\ events' = Append(events, terminalEvent(promise))
  /\ ended' = TRUE
  /\ UNCHANGED <<endpoint, options, units, response, lateWrites, translateVars,
                 completed, promise, cursor, results, runners, historyVars>>

Next ==
  \/ \E body \in RequestBodies : PostTranslate(body)
  \/ \E body \in RequestBodies : PostTranslateStream(body)
  \/ \E w \in DOMAIN runners : ModelReturns(w)
  \/ \E w \in DOMAIN runners : BackoffEnds(w)
  \/ \E w \in DOMAIN runners : RunnerStores(w)
  \/ TranslateResumes
  \/ StreamResumes

Spec == Init /\ [][Next]_vars

\* The scheduling the run relies on: a model call in flight eventually
\* returns (a response or a transport error), a sleep's timer eventually
\* fires, and a runner whose worker has returned is eventually resumed.
Fairness ==
  /\ WF_vars(\E w \in DOMAIN runners : ModelReturns(w))
  /\ WF_vars(\E w \in DOMAIN runners : BackoffEnds(w))
  /\ WF_vars(\E w \in DOMAIN runners : RunnerStores(w))

\* The requests of the runs checked under Fairness: one batch of one unit,
\* one batch of two units, and two batches (one or two runners).
FairLengths == {<<Short>>, <<Short, Short>>, <<Long, Long>>}
FairBodies ==
  {[text |-> Str(joinParagraphs(lengths, 1)), options |-> o] :
     lengths \in FairLengths, o \in RequestOptions}

FairNext ==
  \/ \E body \in FairBodies : PostTranslate(body)
  \/ \E body \in FairBodies : PostTranslateStream(body)
  \/ \E w \in DOMAIN runners : ModelReturns(w)
  \/ \E w \in DOMAIN runners : BackoffEnds(w)
  \/ \E w \in DOMAIN runners : RunnerStores(w)
  \/ TranslateResumes
  \/ StreamResumes

FairSpec == Init /\ [][FairNext]_vars /\ Fairness

(***************************************************************************)
(* chunking.verify.js: units, mock translation, flat ordered chunks, for   *)
(* every text up to MaxTextLen characters                                  *)
(***************************************************************************)
MaxTextLen == 5
MaxLimit == 2
TextAlphabet == {"a", "b", SP, LF, CR}

VerifyTexts == UNION {[1..n -> TextAlphabet] : n \in 0..MaxTextLen}

\* fa: `ترجمه ${unit.id}`
mockTranslation(id) == <<"t", "r", SP, ToString(id)>>

mockTranslated(units_) ==
  [i \in 1..Len(units_) |->
     [id |-> units_[i].id, ar |-> units_[i].ar, fa |-> mockTranslation(units_[i].id)]]

\* The orders in which n pairs may arrive.
Orders(n) == {f \in [1..n -> 1..n] : \A i, j \in 1..n : f[i] = f[j] => i = j}

VerifyInit ==
  /\ ServerIdle
  /\ vpc = "start"
  /\ verifyText \in VerifyTexts
  /\ verifyLimit \in 1..MaxLimit
  /\ verifyUnits = <<>>
  /\ verifyItems = <<>>
  /\ verifyFlat = <<>>
  /\ CallOff

VerifyBuild ==
  /\ vpc = "start"
  /\ vpc' = "built"
  /\ verifyUnits' = buildParagraphUnits(verifyText, verifyLimit)
  /\ UNCHANGED <<verifyText, verifyLimit, verifyItems, verifyFlat, serverVars,
                 callVars>>

VerifyTranslate ==
  /\ vpc = "built"
  /\ vpc' = "translated"
  /\ \E order \in Orders(Len(verifyUnits)) :
       verifyItems' = [i \in 1..Len(verifyUnits) |->
                         mockTranslated(verifyUnits)[order[i]]]
  /\ UNCHANGED <<verifyText, verifyLimit, verifyUnits, verifyFlat, serverVars,
                 callVars>>

VerifyFlatten ==
  /\ vpc = "translated"
  /\ vpc' = "flat"
  /\ verifyFlat' = toFlatOrderedChunks(verifyItems)
  /\ UNCHANGED <<verifyText, verifyLimit, verifyUnits, verifyItems, serverVars,
                 callVars>>

VerifyNext == VerifyBuild \/ VerifyTranslate \/ VerifyFlatten

SpecVerify == VerifyInit /\ [][VerifyNext]_vars

(***************************************************************************)
(* Single calls of a function, on arguments drawn from bounded sets        *)
(***************************************************************************)
\* translator.js: buildParagraphBatches(units, maxBatchChars).
\* Largest number of units of a call.
MaxBatchUnits == 4
\* Lengths of the units' ar, around the limit of 200: 98 + 2 + 100 fills a
\* batch exactly, 100 + 2 + 100 does not fit, 201 is oversized on its own.
BatchLengths ==
  {1, MinBatchChars \div 2 - 2, MinBatchChars \div 2, MinBatchChars - 2,
   MinBatchChars, MinBatchChars + 1}
\* translateUnits never hands a limit below 200 to buildParagraphBatches.
BatchLimits == {MinBatchChars, DefaultMaxChunkChars}

\* The units buildParagraphUnits makes of paragraphs of the given lengths.
unitsOfLengths(lengths, maxChunkChars) ==
  [i \in 1..Len(lengths) |->
     paragraphUnit(Paragraph(i, lengths[i]), i - 1, maxChunkChars)]

BatchCalls ==
  {[fn |-> "buildParagraphBatches",
    units |-> unitsOfLengths(lengths, limit),
    maxBatchChars |-> limit] :
     lengths \in UNION {[1..n -> BatchLengths] : n \in 0..MaxBatchUnits},
     limit \in BatchLimits}

BatchesInit ==
  /\ ServerIdle
  /\ VerifyOff
  /\ call \in BatchCalls
  /\ returned = NotReturned

CallBuildParagraphBatches ==
  /\ call.fn = "buildParagraphBatches"
  /\ returned = NotReturned
  /\ returned' = Returned(buildParagraphBatches(call.units, call.maxBatchChars))
  /\ UNCHANGED <<call, serverVars, verifyVars>>

BatchesNext == CallBuildParagraphBatches

SpecBatches == BatchesInit /\ [][BatchesNext]_vars

\* chunking.js: splitIntoParagraphs(text), for every text of up to
\* MaxParagraphsTextLen characters.
MaxParagraphsTextLen == 6
ParagraphsAlphabet == {"a", "b", SP, LF, CR}

ParagraphsCalls ==
  {[fn |-> "splitIntoParagraphs", text |-> t] :
     t \in UNION {[1..n -> ParagraphsAlphabet] : n \in 0..MaxParagraphsTextLen}}

ParagraphsInit ==
  /\ ServerIdle
  /\ VerifyOff
  /\ call \in ParagraphsCalls
  /\ returned = NotReturned

CallSplitIntoParagraphs ==
  /\ call.fn = "splitIntoParagraphs"
  /\ returned = NotReturned
  /\ returned' = Returned(splitIntoParagraphs(call.text))
  /\ UNCHANGED <<call, serverVars, verifyVars>>

ParagraphsNext == CallSplitIntoParagraphs

SpecParagraphs == ParagraphsInit /\ [][ParagraphsNext]_vars

\* chunking.js: buildParagraphUnits(text, maxChunkChars) on a text of two or
\* more paragraphs: any string of up to MaxSplitLen characters, a blank
\* line and a closing paragraph.  The paragraphs of the string are then cut
\* at blank lines only, so they take every shape a paragraph can have: with
\* single line feeds, sentence terminators and unbreakable runs inside.
MaxSplitLen == 5
MaxSplitLimit == 3
SplitAlphabet == {"a", ".", ArabicQuestionMark, SP, LF}
ClosingParagraph == <<LF, LF, "z">>

SplitCalls ==
  {[fn |-> "buildParagraphUnits",
    text |-> t \o ClosingParagraph,
    maxChunkChars |-> limit] :
     t \in UNION {[1..n -> SplitAlphabet] : n \in 0..MaxSplitLen},
     limit \in 1..MaxSplitLimit}

SplitInit ==
  /\ ServerIdle
  /\ VerifyOff
  /\ call \in SplitCalls
  /\ returned = NotReturned

CallBuildParagraphUnits ==
  /\ call.fn = "buildParagraphUnits"
  /\ returned = NotReturned
  /\ returned' = Returned(buildParagraphUnits(call.text, call.maxChunkChars))
  /\ UNCHANGED <<call, serverVars, verifyVars>>

SplitNext == CallBuildParagraphUnits

SpecSplit == SplitInit /\ [][SplitNext]_vars

\* translator.js: safeParseJson(rawText, expectedLength) on response texts
\* written in the ways a model writes them.
MaxExpectedLength == 2
Strings == <<"s1", "s2", "s3", "s4">>

\* The JSON array of k strings.
RECURSIVE stringItems(_)
stringItems(k) ==
  IF k = 0 THEN <<>>
  ELSE (IF k > 1 THEN stringItems(k - 1) \o <<",">> ELSE <<>>)
       \o <<Strings[((k - 1) % Len(Strings)) + 1]>>
stringArray(k) == <<"[">> \o stringItems(k) \o <<"]">>

\* The JSON object with one key.
objectOf(key, value) == <<"{", key, ":">> \o value \o <<"}">>

\* The object {"fa": [k strings]} a response should be.
faObject(k) == objectOf("fa", stringArray(k))

\* What a response may hold where its JSON should be: objects with the key
\* fa or another key and a value of any kind, an object with a second key,
\* a bare array, JSON cut short, and prose.
ResponseBodies ==
  {objectOf(key, value) :
     key \in {"fa", "fb"},
     value \in {stringArray(k) : k \in 0..(MaxExpectedLength + 1)}
                \cup {<<"[", "7", "]">>, <<"[", "s1", ",", "7", "]">>,
                      <<"s1">>, <<"7">>}}
    \cup {<<"{", "fa", ":">> \o stringArray(k) \o <<",", "fb", ":", "7", "}">> :
            k \in 1..MaxExpectedLength}
    \cup {stringArray(1), <<"{", "fa", ":", "[", "s1">>, <<Prose>>}

\* The ways the text is laid out around its body (and a second body).
ResponseLayouts ==
  {"bare", "padded", "fenced", "fencedJson", "proseAndFence", "proseAround",
   "fenceThenBody", "bodyThenBody"}

responseText(layout, body, second) ==
  CASE layout = "bare" -> body
    [] layout = "padded" -> <<LF>> \o body \o <<SP>>
    [] layout = "fenced" -> <<FENCE, LF>> \o body \o <<LF, FENCE>>
    [] layout = "fencedJson" -> <<FENCE, "json", LF>> \o body \o <<LF, FENCE, LF>>
    [] layout = "proseAndFence" ->
         <<Prose, SP, FENCE, "json", SP>> \o body \o <<SP, FENCE, SP, Prose>>
    [] layout = "proseAround" -> <<Prose, SP>> \o body \o <<SP, Prose>>
    [] layout = "fenceThenBody" ->
         <<FENCE, LF>> \o body \o <<LF, FENCE, SP>> \o second
    [] layout = "bodyThenBody" -> body \o <<SP, Prose, SP>> \o second

ParseCalls ==
  {[fn |-> "safeParseJson",
    rawText |-> responseText(layout, body, second),
    expectedLength |-> n,
    layout |-> layout, body |-> body, second |-> second] :
     layout \in ResponseLayouts, body \in ResponseBodies,
     second \in ResponseBodies, n \in 1..MaxExpectedLength}

ParseInit ==
  /\ ServerIdle
  /\ VerifyOff
  /\ call \in ParseCalls
  /\ returned = NotReturned

CallSafeParseJson ==
  /\ call.fn = "safeParseJson"
  /\ returned = NotReturned
  /\ returned' = Returned(safeParseJson(responseOfText(call.rawText),
                                        call.expectedLength))
  /\ UNCHANGED <<call, serverVars, verifyVars>>

ParseNext == CallSafeParseJson

SpecParse == ParseInit /\ [][ParseNext]_vars

\* index.js: the limits a handler computes and hands on, for the server
\* started in any environment and a request with any options.
EnvironmentValues ==
  [MAX_CHUNK_CHARS :
     {Undefined, Num(0), Num(MinChunkChars - 1), Num(MinChunkChars),
      Num(DefaultMaxChunkChars), Num(MaxChunkCharsCap), Num(MaxChunkCharsCap + 1)},
   CONCURRENCY :
     {Undefined, Num(0 - 1), Num(0), Num(MinConcurrency), Num(DefaultConcurrency),
      Num(MaxConcurrencyCap), Num(MaxConcurrencyCap + 1)}]

OptionValues ==
  [maxChunkChars :
     {Undefined, Num(0), Num(MinChunkChars - 1), Num(MinChunkChars),
      Num(MaxChunkCharsCap), Num(MaxChunkCharsCap + 1)},
   concurrency :
     {Undefined, Num(0 - 1), Num(0), Num(MinConcurrency),
      Num(MaxConcurrencyCap), Num(MaxConcurrencyCap + 1)}]

LimitCalls ==
  {[fn |-> "limits", env |-> env,
    body |-> [text |-> Str(<<"a">>), options |-> o]] :
     env \in EnvironmentValues, o \in OptionValues}

LimitsInit ==
  /\ ServerIdle
  /\ VerifyOff
  /\ call \in LimitCalls
  /\ returned = NotReturned

\* A handler up to its call of translateUnits, and translateUnits up to its
\* call of buildParagraphBatches: the limit given to buildParagraphUnits,
\* the limit given to buildParagraphBatches and the concurrency given to
\* mapWithConcurrency.
ComputeLimits ==
  /\ call.fn = "limits"
  /\ returned = NotReturned
  /\ LET payload == validateTextInput(call.body)
         opts == clampedOptionsWith(payload, loadConfig(call.env))
     IN  returned' = Returned([unitLimit |-> opts.maxChunkChars,
                               batchLimit |-> translateMaxBatchChars(opts),
                               concurrency |-> translateConcurrency(opts)])
  /\ UNCHANGED <<call, serverVars, verifyVars>>

LimitsNext == ComputeLimits

SpecLimits == LimitsInit /\ [][LimitsNext]_vars

(***************************************************************************)
(* Properties                                                              *)
(***************************************************************************)
idsOf(items) == [i \in 1..Len(items) |-> items[i].id]
statusesOf(items) == {items[i].status : i \in 1..Len(items)}
RunnerIds == DOMAIN runners
InFlight == {w \in RunnerIds : runners[w].pc = "call"}
EventCount(type) == Cardinality({i \in 1..Len(events) : events[i].type = type})
LogOf(index, position) ==
  {e \in invocationLog : e.index = index /\ e.position = position}

\* C1: when translateUnits resolves (every batch succeeded, directly or by
\* fallback), its value has one entry per input unit and the ids run
\* 1, 2, ..., N in this order, whatever the order the batches completed in.
C1_MergedIdsIncreasing ==
  promise.state = "resolved" =>
    /\ Len(promise.value) = Len(units)
    /\ \A i \in 1..Len(promise.value) : promise.value[i].id = i

\* A resolved streamed run of several batches in which a unit of a later
\* batch was reported before a unit of an earlier one.
C1_Witness ==
  /\ promise.state = "resolved"
  /\ Len(batches) >= 2
  /\ \E i, j \in 2..Len(events) :
       /\ i < j
       /\ events[i].type = "progress" /\ events[j].type = "progress"
       /\ events[i].chunk.id > events[j].chunk.id

\* C2: every entry of the value translateUnits resolves with carries the ar
\* of the input unit of its id and, as fa, the trimmed string the model
\* returned for that unit (at its position of the batch response, or in its
\* single response on the fallback path).
C2_TranslationsMatchUnits ==
  promise.state = "resolved" =>
    \A i \in 1..Len(promise.value) :
      LET pair == promise.value[i]
      IN  /\ pair.id \in 1..Len(units)
          /\ pair.ar = units[pair.id].ar
          /\ pair.fa = trim(translationOf(pair.id))

\* A resolved run with a batch of several units translated together, a
\* batch salvaged by fallback, and two runners.
C2_Witness ==
  /\ promise.state = "resolved"
  /\ Len(runners) >= 2
  /\ \E b \in 1..Len(batches) : Len(batches[b]) >= 2 /\ statusesOf(results[b]) = {"done"}
  /\ \E b \in 1..Len(batches) : statusesOf(results[b]) = {"done_fallback"}

\* C3: buildParagraphUnits numbers the paragraphs of splitIntoParagraphs(text)
\* 1..N in order, unit i carrying the i-th paragraph; and the pairs of units
\* and translations, flattened and sorted by id, list the paragraphs in their
\* original order, each with the translation made for its id.
C3_UnitsAndFlatChunksInOrder ==
  LET paragraphs == splitIntoParagraphs(verifyText)
  IN  /\ vpc \in {"built", "translated", "flat"} =>
           /\ Len(verifyUnits) = Len(paragraphs)
           /\ \A i \in 1..Len(verifyUnits) :
                verifyUnits[i].id = i /\ verifyUnits[i].ar = paragraphs[i]
      /\ vpc = "flat" =>
           /\ [i \in 1..Len(verifyFlat) |-> verifyFlat[i].ar] = paragraphs
           /\ \A i \in 1..Len(verifyFlat) :
                verifyFlat[i].fa = mockTranslation(i)

\* Three paragraphs whose pairs arrived in another order than the units'.
C3_Witness ==
  /\ vpc = "flat"
  /\ Len(verifyFlat) >= 3
  /\ idsOf(verifyItems) # idsOf(verifyFlat)

\* C4: at every moment of a run the number of model calls in flight is at
\* most min(concurrency handed to translateUnits, number of batches), also
\* while batches are on the fallback path.
C4_InFlightBounded ==
  hpc \in {"awaiting", "done"} /\ options # Null =>
    Cardinality(InFlight) <= Min(options.concurrency, Len(batches))

\* The bound is reached with more batches than runners, one call being a
\* single-unit call of the fallback path.
C4_Witness ==
  /\ options # Null
  /\ Len(batches) > options.concurrency
  /\ Cardinality(InFlight) = options.concurrency
  /\ Cardinality(InFlight) >= 2
  /\ \E w \in InFlight : runners[w].fallbackUsed

\* C5: no batch index is claimed more than once or by two runners, and when
\* mapWithConcurrency resolves every batch has been claimed exactly once and
\* the slot of its index holds the pairs of its own units.
C5_EachBatchOnceInItsSlot ==
  /\ \A b \in DOMAIN claimCount : claimCount[b] <= 1
  /\ \A v, w \in RunnerIds :
       v # w /\ runners[v].pc \in {"call", "sleep", "mapped"}
             /\ runners[w].pc \in {"call", "sleep", "mapped"}
         => runners[v].index # runners[w].index
  /\ \A b \in 1..Len(results) :
       results[b] # <<>> => idsOf(results[b]) = idsOf(batches[b])
  /\ promise.state = "resolved" =>
       \A b \in 1..Len(batches) :
         claimCount[b] = 1 /\ idsOf(results[b]) = idsOf(batches[b])

\* A resolved run in which two runners shared three batches.
C5_Witness ==
  /\ promise.state = "resolved"
  /\ Len(runners) = 2
  /\ Len(batches) = 3

\* The ids the request's response carries: those of the chunks of the 200
\* response, or of the done line of the stream.
DeliveredIds ==
  IF endpoint = "translate"
  THEN IF response # Null /\ response.status = 200
       THEN {response.chunks[i].id : i \in 1..Len(response.chunks)}
       ELSE {}
  ELSE UNION {{events[i].chunks[k].id : k \in 1..Len(events[i].chunks)} :
                i \in {j \in 1..Len(events) : events[j].type = "done"}}

\* C6: when a batch is dropped (its combined call and then one of its
\* single-unit calls exhausted their retries), the run does not fail: the
\* answer to the request still carries the units of every batch that
\* succeeded.
C6_OnlyFailedBatchDropped ==
  hpc = "done" /\ (\E w \in RunnerIds : runners[w].pc = "failed") =>
    \A b \in 1..Len(results) :
      results[b] # <<>> => \A i \in 1..Len(results[b]) : results[b][i].id \in DeliveredIds

\* C7: a terminal failure of one batch neither cancels the batches in flight
\* nor keeps an unclaimed batch from being claimed: once no runner is
\* active any more, every batch has been claimed.
C7_FailureLeavesNoBatchUnclaimed ==
  /\ RunnerIds # {}
  /\ \A w \in RunnerIds : runners[w].pc \in {"returned", "failed"}
  => \A b \in 1..Len(batches) : claimCount[b] >= 1

\* C8: one invocation of translateBatchWithRetries makes at most 3 model
\* calls, stops at the first valid response and returns attempts equal to
\* the 1-based number of that call, and raises only after 3 failed calls.
C8_AtMostThreeCalls ==
  /\ \A w \in RunnerIds :
       runners[w].pc \in {"call", "sleep"} =>
         /\ runners[w].inv.callsMade <= 3
         /\ runners[w].inv.failedCalls =
              runners[w].inv.callsMade - (IF runners[w].pc = "call" THEN 1 ELSE 0)
  /\ \A e \in invocationLog :
       /\ e.calls <= 3
       /\ e.outcome = "returned" => e.attempts = e.calls /\ e.failed = e.calls - 1
       /\ e.outcome = "raised" => e.calls = 3 /\ e.failed = 3

\* An invocation returned at its third call and another raised.
C8_Witness ==
  /\ \E e \in invocationLog : e.outcome = "returned" /\ e.attempts = 3
  /\ \E e \in invocationLog : e.outcome = "raised"

\* C9: after the combined call of a batch of k units has failed all its
\* attempts, the single-unit calls follow in unit order, one invocation per
\* unit with its own budget of 3 calls; when all k have returned the batch
\* yields k pairs tagged done_fallback with each unit's own attempt count;
\* a batch whose combined call returned yields k pairs tagged done and no
\* single-unit call is made for it.
C9_FallbackPerUnit ==
  /\ \A e \in invocationLog :
       e.position >= 1 =>
         /\ e.position <= Len(batches[e.index + 1])
         /\ e.calls \in 1..3
         /\ \E c \in LogOf(e.index, 0) : c.outcome = "raised"
         /\ \A q \in 1..(e.position - 1) :
              \E c \in LogOf(e.index, q) : c.outcome = "returned"
  /\ \A w \in RunnerIds :
       runners[w].pc \in {"call", "sleep"} /\ runners[w].fallbackUsed =>
         \A q \in 1..Len(runners[w].fallbackFa) :
           \E c \in LogOf(runners[w].index, q) : c.outcome = "returned"
  /\ \A b \in 1..Len(results) :
       results[b] # <<>> =>
         LET k == Len(batches[b])
             singles == {e \in invocationLog : e.index = b - 1 /\ e.position >= 1}
         IN  /\ Len(results[b]) = k
             /\ IF \E c \in LogOf(b - 1, 0) : c.outcome = "raised"
                THEN /\ statusesOf(results[b]) = {"done_fallback"}
                     /\ Cardinality(singles) = k
                     /\ \A q \in 1..k :
                          \E c \in LogOf(b - 1, q) :
                            /\ c.outcome = "returned"
                            /\ results[b][q].attempts = c.attempts
                ELSE /\ statusesOf(results[b]) = {"done"}
                     /\ singles = {}

\* A batch of two units salvaged by fallback, both single calls retried.
C9_Witness ==
  \E b \in 1..Len(results) :
    /\ results[b] # <<>>
    /\ Len(batches[b]) >= 2
    /\ statusesOf(results[b]) = {"done_fallback"}
    /\ \A q \in 1..2 : results[b][q].attempts >= 2

\* C10: a streaming request with a valid text writes exactly one meta line,
\* before every other line, and exactly one terminal line: done when
\* translateUnits resolved, error when it rejected.
C10_OneMetaOneTerminal ==
  endpoint = "translate-stream" /\ response = Null =>
    /\ EventCount("meta") = 1
    /\ events[1].type = "meta"
    /\ hpc = "awaiting" => EventCount("done") + EventCount("error") = 0
    /\ hpc = "done" =>
         /\ EventCount("done") + EventCount("error") = 1
         /\ events[Len(events)].type \in {"done", "error"}
         /\ EventCount("done") = 1 <=> promise.state = "resolved"
         /\ EventCount("error") = 1 <=> promise.state = "rejected"

\* A stream that reported a unit and then ended with the error line.
C10_Witness ==
  /\ endpoint = "translate-stream"
  /\ hpc = "done"
  /\ EventCount("progress") >= 1
  /\ events[Len(events)].type = "error"

\* Sum of the units' ar lengths plus 2 per joint between units.
RECURSIVE arLengthSum(_)
arLengthSum(batch) ==
  IF batch = <<>> THEN 0 ELSE Len(Head(batch).ar) + arLengthSum(Tail(batch))
joinedLength(batch) == arLengthSum(batch) + 2 * (Len(batch) - 1)

BatchesReturned == call.fn = "buildParagraphBatches" /\ returned.type = "returned"
madeBatches == returned.value

\* C11: buildParagraphBatches partitions the units: every batch is non-empty,
\* the batches concatenated in order are exactly the input unit sequence, and
\* each batch is a run of consecutive ids.
C11_BatchesPartitionUnits ==
  BatchesReturned =>
    /\ \A b \in 1..Len(madeBatches) : Len(madeBatches[b]) >= 1
    /\ flat(madeBatches) = call.units
    /\ \A b \in 1..Len(madeBatches) : \A i \in 1..(Len(madeBatches[b]) - 1) :
         madeBatches[b][i + 1].id = madeBatches[b][i].id + 1

\* Four units fall into a batch of one unit, a batch of two and another batch.
C11_Witness ==
  /\ BatchesReturned
  /\ Len(call.units) = 4
  /\ Len(madeBatches) = 3
  /\ Len(madeBatches[1]) = 1
  /\ Len(madeBatches[2]) = 2

\* C12: in every batch the ar lengths plus 2 per joint sum to at most the
\* limit, unless the batch is one single unit that is itself longer than the
\* limit.
C12_BatchWithinLimit ==
  BatchesReturned =>
    \A b \in 1..Len(madeBatches) :
      \/ joinedLength(madeBatches[b]) <= call.maxBatchChars
      \/ Len(madeBatches[b]) = 1 /\ Len(madeBatches[b][1].ar) > call.maxBatchChars

\* A batch of two units that fills the limit exactly, next to an oversized
\* unit in a batch of its own.
C12_Witness ==
  /\ BatchesReturned
  /\ \E b \in 1..Len(madeBatches) :
       Len(madeBatches[b]) = 2 /\ joinedLength(madeBatches[b]) = call.maxBatchChars
  /\ \E b \in 1..Len(madeBatches) :
       Len(madeBatches[b]) = 1 /\ Len(madeBatches[b][1].ar) > call.maxBatchChars

\* Reference definitions for C13 and C14, written as a scan of the text
\* character by character.
\* Every CR LF pair and every other CR becomes one line feed.
RECURSIVE lineFeedsOnly(_, _)
lineFeedsOnly(s, i) ==
  IF i > Len(s) THEN <<>>
  ELSE IF s[i] = CR
       THEN <<LF>> \o lineFeedsOnly(s, IF i < Len(s) /\ s[i + 1] = LF
                                       THEN i + 2 ELSE i + 1)
       ELSE <<s[i]>> \o lineFeedsOnly(s, i + 1)

\* Number of line feeds at the start of s from position i.
RECURSIVE feedsAt(_, _)
feedsAt(s, i) == IF i <= Len(s) /\ s[i] = LF THEN 1 + feedsAt(s, i + 1) ELSE 0

\* The pieces of s from position i on, cut at every run of at least minRun
\* line feeds; open is the piece being read.  Shorter runs stay in the piece.
RECURSIVE piecesFrom(_, _, _, _)
piecesFrom(s, i, open, minRun) ==
  IF i > Len(s) THEN <<open>>
  ELSE IF s[i] # LF THEN piecesFrom(s, i + 1, Append(open, s[i]), minRun)
  ELSE IF feedsAt(s, i) >= minRun
       THEN <<open>> \o piecesFrom(s, i + feedsAt(s, i), <<>>, minRun)
       ELSE piecesFrom(s, i + feedsAt(s, i),
                       open \o [k \in 1..feedsAt(s, i) |-> LF], minRun)

\* The non-empty trimmed pieces, in order.
nonEmptyTrimmed(pieces) ==
  LET isNonEmpty(p) == p # <<>>
  IN  SelectSeq([k \in 1..Len(pieces) |-> trim(pieces[k])], isNonEmpty)

ParagraphsReturned == call.fn = "splitIntoParagraphs" /\ returned.type = "returned"
\* The text of the call after newline normalization and trimming.
normalizedText == trim(lineFeedsOnly(call.text, 1))
hasLineFeedRun(s, n) == \E i \in 1..Len(s) : feedsAt(s, i) >= n

\* C13: for a text that, normalized and trimmed, has a run of two or more
\* line feeds, splitIntoParagraphs returns exactly the non-empty trimmed
\* pieces between such runs; single line feeds stay inside their piece.
C13_SplitOnBlankLinesOnly ==
  (ParagraphsReturned /\ hasLineFeedRun(normalizedText, 2)) =>
    /\ returned.value = nonEmptyTrimmed(piecesFrom(normalizedText, 1, <<>>, 2))
    /\ \A k \in 1..Len(returned.value) :
         /\ returned.value[k] # <<>>
         /\ ~hasLineFeedRun(returned.value[k], 2)

\* A text with a blank line whose paragraph keeps a single line feed inside.
C13_Witness ==
  /\ ParagraphsReturned
  /\ hasLineFeedRun(normalizedText, 2)
  /\ Len(returned.value) = 2
  /\ \E k \in 1..2 : hasLineFeedRun(returned.value[k], 1)

\* C14: for a text that, normalized and trimmed, has line feeds but no run
\* of two or more, every non-empty trimmed line is a paragraph of its own,
\* in order; for an empty or whitespace-only text the result is empty.
C14_SplitOnEveryLine ==
  ParagraphsReturned =>
    /\ (hasLineFeedRun(normalizedText, 1) /\ ~hasLineFeedRun(normalizedText, 2)) =>
         /\ returned.value = nonEmptyTrimmed(piecesFrom(normalizedText, 1, <<>>, 1))
         /\ \A k \in 1..Len(returned.value) :
              ~hasLineFeedRun(returned.value[k], 1)
    /\ (\A i \in 1..Len(call.text) : call.text[i] \in WhiteSpace) =>
         returned.value = <<>>

\* Three lines, none blank, give three paragraphs in their order.
C14_Witness ==
  /\ ParagraphsReturned
  /\ ~hasLineFeedRun(normalizedText, 2)
  /\ Len(returned.value) = 3
  /\ returned.value[1] # returned.value[2]

UnitsReturned == call.fn = "buildParagraphUnits" /\ returned.type = "returned"
\* The units of the call whose paragraph fits, or does not fit, the limit.
FittingUnits ==
  {k \in 1..Len(returned.value) : Len(returned.value[k].ar) <= call.maxChunkChars}
OverlongUnits ==
  {k \in 1..Len(returned.value) : Len(returned.value[k].ar) > call.maxChunkChars}
hasCharIn(s, chars) == \E i \in 1..Len(s) : s[i] \in chars

\* C15: the unit of a paragraph no longer than the limit has the paragraph
\* itself, unchanged, as its only sub-segment.
C15_FittingParagraphKept ==
  UnitsReturned =>
    \A k \in FittingUnits :
      returned.value[k].subChunks = <<returned.value[k].ar>>

\* A fitting paragraph of three characters with a line feed or a space inside.
C15_Witness ==
  /\ UnitsReturned
  /\ \E k \in FittingUnits :
       /\ Len(returned.value[k].ar) = 3
       /\ hasCharIn(returned.value[k].ar, {LF, SP})

\* C16: every sub-segment of a paragraph longer than the limit (limit >= 1)
\* is non-empty and no longer than the limit.
C16_SubSegmentsWithinLimit ==
  UnitsReturned =>
    \A k \in OverlongUnits :
      \A i \in 1..Len(returned.value[k].subChunks) :
        /\ Len(returned.value[k].subChunks[i]) >= 1
        /\ Len(returned.value[k].subChunks[i]) <= call.maxChunkChars

\* An overlong paragraph with a line break, a sentence terminator and a run
\* that had to be cut, split into three or more sub-segments.
C16_Witness ==
  /\ UnitsReturned
  /\ \E k \in OverlongUnits :
       /\ hasCharIn(returned.value[k].ar, {LF})
       /\ hasCharIn(returned.value[k].ar, SentenceTerminators)
       /\ Len(returned.value[k].subChunks) >= 3
       /\ \E i \in 1..(Len(returned.value[k].ar) - call.maxChunkChars) :
            \A j \in i..(i + call.maxChunkChars) :
              returned.value[k].ar[j] \notin WhiteSpace \cup SentenceTerminators

\* The characters of s that are not white space, in order.
content(s) ==
  LET isContent(c) == c \notin WhiteSpace
  IN  SelectSeq(s, isContent)

\* C17: the sub-segments of a paragraph longer than the limit, concatenated
\* in order with white space ignored, reproduce the paragraph's content: no
\* character that is not white space is lost, duplicated or reordered,
\* wherever the sentence terminators stand.
C17_ContentPreserved ==
  UnitsReturned =>
    \A k \in OverlongUnits :
      content(flat(returned.value[k].subChunks)) = content(returned.value[k].ar)

ParseReturned == call.fn = "safeParseJson" /\ returned.type = "returned"

\* A body is right for n when it is an object with the one key fa holding an
\* array of exactly n strings.
rightBody(body, n) == body = faObject(n)
hasToken(body, token) == \E i \in 1..Len(body) : body[i] = token

\* With two bodies, the body the substring from the first { to the last }
\* is: the second if only it has braces, the first if the second has no },
\* and no JSON (it spans both) if it starts in the first and ends in the
\* second.
spannedBody(c) ==
  IF ~hasToken(c.second, "}") THEN c.body
  ELSE IF ~hasToken(c.body, "{") THEN c.second
  ELSE <<>>

\* The body of the first candidate, in the order whole text, content of the
\* first fenced block, first { to last }, that is right for n; <<>> if no
\* candidate is.
acceptedBody(c) ==
  LET n == c.expectedLength
  IN  CASE c.layout \in {"bare", "padded", "fenced", "fencedJson",
                         "proseAndFence", "proseAround"} ->
             IF rightBody(c.body, n) THEN c.body ELSE <<>>
        [] c.layout = "fenceThenBody" ->
             IF rightBody(c.body, n) THEN c.body
             ELSE IF rightBody(spannedBody(c), n) THEN spannedBody(c)
             ELSE <<>>
        [] c.layout = "bodyThenBody" ->
             IF rightBody(spannedBody(c), n) THEN spannedBody(c) ELSE <<>>

\* C18: safeParseJson accepts a raw response exactly when one of its
\* candidates (whole trimmed text, content of the first fenced block,
\* substring from the first { to the last }) is an object with the one key
\* fa holding an array of the expected number of strings, and returns the
\* trimmed strings of the first such candidate; so a fenced valid response
\* is accepted as it is.
C18_AcceptsFirstValidCandidate ==
  ParseReturned =>
    IF acceptedBody(call) = <<>>
    THEN returned.value = Null
    ELSE /\ returned.value # Null
         /\ returned.value.fa =
              [i \in 1..call.expectedLength |-> trim(StringLiterals[Strings[i]])]

\* A valid object of two padded strings in a fenced block with prose around
\* it is accepted, and the strings come back trimmed.
C18_Witness ==
  /\ ParseReturned
  /\ call.layout = "proseAndFence"
  /\ call.expectedLength = 2
  /\ returned.value # Null
  /\ returned.value.fa = <<<<"s", "1">>, <<"s", "2">>>>

\* The request bodies whose text is missing, not a string, empty or made of
\* white space only.
InvalidBodies ==
  {body \in RequestBodies :
     \/ body.text.type # "string"
     \/ \A i \in 1..Len(body.text.value) : body.text.value[i] \in WhiteSpace}

\* Nothing of the pipeline has run and nothing was written to the stream.
NoPipelineWork ==
  /\ units = <<>>
  /\ batches = <<>>
  /\ promise = NoPromise
  /\ runners = <<>>
  /\ callCount = <<>>
  /\ invocationLog = {}
  /\ events = <<>>
  /\ lateWrites = 0

\* C19: a request whose text is missing, not a string, empty or whitespace
\* only is answered at once with the 400 error response, on either
\* endpoint, with no unit built, no model call made and no stream line
\* written; and nothing happens after the refusal (no retry).
C19_InvalidTextRefused ==
  [][/\ \A body \in InvalidBodies :
          (PostTranslate(body) \/ PostTranslateStream(body)) =>
            (response' = BadRequest /\ hpc' = "done" /\ NoPipelineWork')
     /\ response = BadRequest => (NoPipelineWork /\ UNCHANGED vars)]_vars

\* A request with a whitespace-only or missing text was refused by the
\* streaming endpoint.
C19_Witness ==
  /\ endpoint = "translate-stream"
  /\ hpc = "done"
  /\ response = BadRequest
  /\ events = <<>>

\* C20: whatever the request options and the environment's defaults, the
\* size limit handed to buildParagraphUnits and to buildParagraphBatches is
\* in [200, 10000] and the concurrency handed to the dispatcher in [1, 10].
C20_HandedLimitsInRange ==
  (call.fn = "limits" /\ returned.type = "returned") =>
    /\ returned.value.unitLimit \in MinChunkChars..MaxChunkCharsCap
    /\ returned.value.batchLimit \in MinChunkChars..MaxChunkCharsCap
    /\ returned.value.concurrency \in MinConcurrency..MaxConcurrencyCap

\* The progress lines of the stream, in the order written.
ProgressLines ==
  LET isProgress(e) == e.type = "progress"
  IN  SelectSeq(events, isProgress)

\* Number of units whose batch a worker has finished (mapped), whether or
\* not its runner has stored the result yet.
RECURSIVE lengthSum(_)
lengthSum(arrays) ==
  IF arrays = <<>> THEN 0 ELSE Len(Head(arrays)) + lengthSum(Tail(arrays))
FinishedUnits ==
  lengthSum(results)
    + lengthSum([w \in RunnerIds |->
                   IF runners[w].pc = "mapped" THEN runners[w].mapped ELSE <<>>])

\* C21: the completed counter grows by exactly 1 per completed unit in every
\* interleaving: it equals the number of finished units and never exceeds
\* the unit count; the progress events carry completed = 1, 2, 3, ...
\* without duplicate or gap and total = the unit count; and after a fully
\* successful run completed equals total, in the counter and in the last
\* progress event.
C21_CompletedCountsUnits ==
  /\ completed = FinishedUnits
  /\ completed <= Len(units)
  /\ \A k \in 1..Len(ProgressLines) :
       /\ ProgressLines[k].completed = k
       /\ ProgressLines[k].totalChunks = Len(units)
  /\ endpoint = "translate-stream" => Len(ProgressLines) + lateWrites = completed
  /\ promise.state = "resolved" =>
       /\ completed = Len(units)
       /\ (endpoint = "translate-stream" /\ Len(units) > 0) =>
            ProgressLines[Len(ProgressLines)].completed = Len(units)

\* A fully successful streamed run of three units in which a later batch
\* was reported first.
C21_Witness ==
  /\ endpoint = "translate-stream"
  /\ promise.state = "resolved"
  /\ Len(ProgressLines) = 3
  /\ ProgressLines[1].chunk.id > 1

\* The runners that are inside the fallback loop of their batch, with the
\* single-unit call of some unit in flight or backing off.
InFallbackLoop ==
  {w \in RunnerIds : runners[w].fallbackUsed /\ runners[w].pc \in {"call", "sleep"}}

\* C22: on the per-unit fallback path a unit is counted and reported when
\* its own single-unit call has succeeded, before the next unit's call of
\* the batch starts: while a later unit's call is going on, every unit of
\* the batch already translated is in the counter and, on the streaming
\* endpoint, has its progress line.
C22_ProgressWhenUnitFinishes ==
  \A w \in InFallbackLoop :
    /\ completed >= Len(runners[w].fallbackFa)
    /\ endpoint = "translate-stream" =>
         \A q \in 1..Len(runners[w].fallbackFa) :
           \E k \in 1..Len(ProgressLines) :
             ProgressLines[k].chunk.id = batches[runners[w].index + 1][q].id

\* C23: on the streaming endpoint the terminal line is the last one: once
\* done or error is written and the response ended, the handler writes no
\* progress line any more, also when a batch failed for good while other
\* runners' batches were in flight and complete later.
C23_NothingWrittenAfterTerminal ==
  (endpoint = "translate-stream" /\ ended) =>
    /\ events[Len(events)].type \in {"done", "error"}
    /\ lateWrites = 0

\* C24: within one invocation of translateBatchWithRetries a backoff only
\* separates two attempts: the wait after failed attempt a (1-based; only
\* a = 1, 2) lasts between 350 * 2^(a-1) and 350 * 2^(a-1) + 119 ms, an
\* invocation that succeeds at attempt k has waited k - 1 times and one
\* that fails all 3 attempts has waited 2 times (none after the last).
C24_BackoffOnlyBetweenAttempts ==
  /\ \A w \in RunnerIds :
       LET inv == runners[w].inv
           a == inv.attempt + 1
       IN  /\ runners[w].pc = "sleep" =>
                /\ a \in 1..2
                /\ inv.failedCalls = a
                /\ inv.waits = a
                /\ inv.backoffMs >= 350 * Pow2(a - 1)
                /\ inv.backoffMs <= 350 * Pow2(a - 1) + 119
           /\ runners[w].pc = "call" => inv.waits = a - 1 /\ inv.backoffMs = 0
  /\ \A e \in invocationLog :
       /\ e.outcome = "returned" => e.waits = e.attempts - 1
       /\ e.outcome = "raised" => e.waits = 2

\* A runner waits the longest delay after its second failed attempt, and
\* some invocation has failed all its attempts.
C24_Witness ==
  /\ \E w \in RunnerIds :
       /\ runners[w].pc = "sleep"
       /\ runners[w].inv.attempt = 1
       /\ runners[w].inv.backoffMs = 350 * 2 + 119
  /\ \E e \in invocationLog : e.outcome = "raised" /\ e.waits = 2

\* C25: when all attempts of an invocation fail, the error raised is the
\* one of the last attempt: the format error if the last response was
\* invalid, the transport error if the last call threw, whatever the
\* earlier attempts ended with.
C25_RaisesLastError ==
  \A e \in invocationLog :
    e.outcome = "raised" =>
      /\ e.lastReply \in {"threw", "invalid"}
      /\ e.lastReply = "threw" => e.error = TransportError
      /\ e.lastReply = "invalid" => e.error = InvalidJsonError

\* One invocation raised the format error after a first call that threw,
\* another raised the transport error after a first invalid response.
C25_Witness ==
  /\ \E e \in invocationLog :
       /\ e.outcome = "raised"
       /\ e.firstReply = "threw"
       /\ e.error = InvalidJsonError
  /\ \E e \in invocationLog :
       /\ e.outcome = "raised"
       /\ e.firstReply = "invalid"
       /\ e.error = TransportError

\* A step that claims the batch at position i: every earlier batch has been
\* claimed, and the claiming runner's worker had finished its batch.
C26_ClaimStep ==
  \A i \in DOMAIN claimCount :
    (i \in DOMAIN claimCount' /\ claimCount'[i] > claimCount[i]) =>
      /\ \A j \in 1..(i - 1) : claimCount[j] > 0
      /\ \E w \in DOMAIN runners :
           /\ runners[w].pc = "mapped"
           /\ Len(runners[w].mapped) = Len(batches[runners[w].index + 1])
           /\ runners'[w].pc = "call"
           /\ runners'[w].index = i - 1
           /\ runners'[w].index > runners[w].index

\* C26: batches are claimed in FIFO order: in every interleaving a batch is
\* claimed only when every batch before it has been claimed, and a runner
\* claims its next batch only after the processing of its current batch
\* has finished.
C26_ClaimsInFifoOrder ==
  /\ [](\A i \in DOMAIN claimCount :
          claimCount[i] > 0 => \A j \in 1..(i - 1) : claimCount[j] > 0)
  /\ [][C26_ClaimStep]_vars

\* With two runners and three batches, a runner has claimed the third batch
\* while the other is still calling the model for the first or the second.
C26_Witness ==
  /\ Len(batches) = 3
  /\ Len(runners) = 2
  /\ \E w, v \in DOMAIN runners :
       /\ runners[w].index = 2
       /\ runners[w].pc = "call"
       /\ runners[v].index < 2
       /\ runners[v].pc \in {"call", "sleep"}
  /\ claimCount = <<1, 1, 1>>

\* The ar text of the request's unit with the given id.
sourceTextOf(id) ==
  LET k == CHOOSE k \in 1..Len(units) : units[k].id = id
  IN  units[k].ar

C28_RunSettlesWithinCallBudget ==
  /\ [](\A i \in DOMAIN callCount : callCount[i] <= 3 + 3 * Len(batches[i]))
  /\ (promise = Pending) ~> (promise.state \in {"resolved", "rejected"})

\* A run has rejected after the 3 combined and the 3 single calls of a
\* batch of one unit, and another has resolved after 6 calls for one batch.
C28_Witness ==
  /\ promise.state \in {"resolved", "rejected"}
  /\ \E i \in DOMAIN callCount :
       /\ Len(batches[i]) = 1
       /\ callCount[i] = 3 + 3 * Len(batches[i])
  /\ \A w \in DOMAIN runners : runners[w].pc \in {"returned", "failed"}
====
